---- MODULE Spec2Model ----
(***************************************************************************)
(* Model of the shader pipeline of src/src/components/ShaderGenerator.tsx: *)
(* the marker-delimited bundle parser, the fragment-source repair, the     *)
(* WebGL resource handling of renderShader and the requestAnimationFrame   *)
(* loop of animate.                                                        *)
(*                                                                         *)
(* JavaScript strings are sequences of one-character strings, indices are  *)
(* 0-based as in the source (String.prototype.indexOf etc.).               *)
(***************************************************************************)
EXTENDS Integers, Sequences, FiniteSets, TLC

VARIABLES
    \* React state of the component (useState, lines 10-13)
    description, shaderCode, error, isLoading,
    \* refs (useRef, lines 14-19)
    canvasRef, animationRef, glRef, programRef, startTimeRef, vertexCountRef,
    \* the host: WebGL device objects, requestAnimationFrame queue, clock, fetch
    webglSupported, dev, pending, nextFrameId, now, fetching, draws,
    \* the pure text functions applied to one input (specifications SpecSplit, SpecRepair)
    input, stage, output, output2

vars == <<description, shaderCode, error, isLoading,
          canvasRef, animationRef, glRef, programRef, startTimeRef, vertexCountRef,
          webglSupported, dev, pending, nextFrameId, now, fetching, draws,
          input, stage, output, output2>>

pipelineVars == <<description, shaderCode, error, isLoading,
          canvasRef, animationRef, glRef, programRef, startTimeRef, vertexCountRef,
          webglSupported, dev, pending, nextFrameId, now, fetching, draws>>

textVars == <<input, stage, output, output2>>

(***************************************************************************)
(* JavaScript string primitives                                            *)
(***************************************************************************)

\* the members of the RegExp class \s (and of what trim() strips) that the inputs use
WhiteSpace == {" ", "\t", "\n", "\r"}

\* the RegExp class \w: [A-Za-z0-9_]
WordChars ==
    {"a","b","c","d","e","f","g","h","i","j","k","l","m","n","o","p","q","r","s","t",
     "u","v","w","x","y","z","A","B","C","D","E","F","G","H","I","J","K","L","M","N",
     "O","P","Q","R","S","T","U","V","W","X","Y","Z","0","1","2","3","4","5","6","7",
     "8","9","_"}

MinOf(S) == CHOOSE x \in S : \A y \in S : x <= y

MaxOf(S) == CHOOSE x \in S : \A y \in S : y <= x

\* pat occurs in s at 0-based index i
OccursAt(s, pat, i) ==
    /\ i >= 0
    /\ i + Len(pat) <= Len(s)
    /\ \A k \in 1..Len(pat) : s[i + k] = pat[k]

\* String.prototype.indexOf: the first index of pat in s, or -1
IndexOf(s, pat) ==
    LET hits == {i \in 0..(Len(s) - Len(pat)) : OccursAt(s, pat, i)}
    IN  IF hits = {} THEN -1 ELSE MinOf(hits)

\* String.prototype.includes
Includes(s, pat) == IndexOf(s, pat) # -1

\* String.prototype.substring(a, b): both ends clamped to 0..length, swapped if a > b
Substring(s, a, b) ==
    LET clamp(x) == IF x < 0 THEN 0 ELSE IF x > Len(s) THEN Len(s) ELSE x
        lo == IF clamp(a) <= clamp(b) THEN clamp(a) ELSE clamp(b)
        hi == IF clamp(a) <= clamp(b) THEN clamp(b) ELSE clamp(a)
    IN  SubSeq(s, lo + 1, hi)

\* String.prototype.substring(a): to the end of the string
SubstringFrom(s, a) == Substring(s, a, Len(s))

\* String.prototype.replace(pat, rep) with a string pattern: the first occurrence only
Replace(s, pat, rep) ==
    LET i == IndexOf(s, pat)
    IN  IF i = -1 THEN s
        ELSE SubSeq(s, 1, i) \o rep \o SubSeq(s, i + Len(pat) + 1, Len(s))

\* String.prototype.trim
Trim(s) ==
    LET keep == {i \in 1..Len(s) : s[i] \notin WhiteSpace}
    IN  IF keep = {} THEN <<>> ELSE SubSeq(s, MinOf(keep), MaxOf(keep))

\* the end (0-based, exclusive) of the longest run of class characters starting at i
SkipClass(s, i, class) ==
    MinOf({j \in i..Len(s) : j = Len(s) \/ s[j + 1] \notin class})

(***************************************************************************)
(* The markers and literals of the source                                  *)
(***************************************************************************)

\* "// Vertex Shader"
VertexMarker == <<"/","/"," ","V","e","r","t","e","x"," ","S","h","a","d","e","r">>

\* "// Fragment Shader"
FragmentMarker == <<"/","/"," ","F","r","a","g","m","e","n","t"," ","S","h","a","d","e","r">>

\* "// GEOMETRY:"
GeometryMarker == <<"/","/"," ","G","E","O","M","E","T","R","Y",":">>

\* the value a thrown Error is modelled by: its message up to the device's diagnostic text
NoError == "none"

MissingMarkersMsg == "Could not find vertex or fragment shader markers"

MissingFragmentMsg == "Could not find fragment shader marker"

(***************************************************************************)
(* split: extractVertexShader, extractFragmentShader, extractGeometryType  *)
(***************************************************************************)

\* a result is [thrown |-> message or NoError, value |-> the string returned]
Returned(v) == [thrown |-> NoError, value |-> v]

Thrown(msg) == [thrown |-> msg, value |-> <<>>]

\* variant of extractVertexShader that tests fragmentStart only
extractVertexShaderFragmentOnly(code) ==
    LET vertexStart == IndexOf(code, VertexMarker)
        fragmentStart == IndexOf(code, FragmentMarker)
    IN  IF fragmentStart = -1
        THEN Thrown(MissingMarkersMsg)
        ELSE Returned(Trim(Replace(Substring(code, vertexStart, fragmentStart),
                                   VertexMarker, <<>>)))

extractVertexShader(code) ==
    LET vertexStart == IndexOf(code, VertexMarker)
        fragmentStart == IndexOf(code, FragmentMarker)
    IN  IF vertexStart = -1 \/ fragmentStart = -1
        THEN Thrown(MissingMarkersMsg)
        ELSE Returned(Trim(Replace(Substring(code, vertexStart, fragmentStart),
                                   VertexMarker, <<>>)))

extractFragmentShader(code) ==
    LET fragmentStart == IndexOf(code, FragmentMarker)
    IN  IF fragmentStart = -1
        THEN Thrown(MissingFragmentMsg)
        ELSE Returned(Trim(Replace(SubstringFrom(code, fragmentStart),
                                   FragmentMarker, <<>>)))

\* code.match(/\/\/ GEOMETRY:\s*(\w+)/): the captured word of the leftmost match
extractGeometryType(code) ==
    LET wordStart(i) == SkipClass(code, i + Len(GeometryMarker), WhiteSpace)
        wordEnd(i) == SkipClass(code, wordStart(i), WordChars)
        hits == {i \in 0..(Len(code) - Len(GeometryMarker)) :
                    /\ OccursAt(code, GeometryMarker, i)
                    /\ wordEnd(i) > wordStart(i)}
    IN  IF hits = {} THEN <<"c","u","b","e">>
        ELSE SubSeq(code, wordStart(MinOf(hits)) + 1, wordEnd(MinOf(hits)))

\* lines 88-89 of renderShader: the two extractions in order, the first throw wins
split(code) ==
    LET v == extractVertexShader(code)
        f == extractFragmentShader(code)
    IN  IF v.thrown # NoError THEN [thrown |-> v.thrown, vertex |-> <<>>, fragment |-> <<>>]
        ELSE IF f.thrown # NoError THEN [thrown |-> f.thrown, vertex |-> <<>>, fragment |-> <<>>]
        ELSE [thrown |-> NoError, vertex |-> v.value, fragment |-> f.value]

(***************************************************************************)
(* repair: fixShaderIssues                                                 *)
(***************************************************************************)

\* "precision"
PrecisionWord == <<"p","r","e","c","i","s","i","o","n">>

\* "float"
FloatWord == <<"f","l","o","a","t">>

\* "precision mediump float;\n"
DefaultPrecision == <<"p","r","e","c","i","s","i","o","n"," ","m","e","d","i","u","m","p"," ","f","l","o","a","t",";","\n">>

\* "uniform float time", "uniform vec2 resolution", "varying vec3 vNormal", "varying vec3 vPosition"
TimeDecl == <<"u","n","i","f","o","r","m"," ","f","l","o","a","t"," ","t","i","m","e">>

ResolutionDecl == <<"u","n","i","f","o","r","m"," ","v","e","c","2"," ","r","e","s","o","l","u","t","i","o","n">>

VNormalDecl == <<"v","a","r","y","i","n","g"," ","v","e","c","3"," ","v","N","o","r","m","a","l">>

VPositionDecl == <<"v","a","r","y","i","n","g"," ","v","e","c","3"," ","v","P","o","s","i","t","i","o","n">>

\* "time", "resolution", "vNormal", "vPosition"
TimeName == <<"t","i","m","e">>

ResolutionName == <<"r","e","s","o","l","u","t","i","o","n">>

VNormalName == <<"v","N","o","r","m","a","l">>

VPositionName == <<"v","P","o","s","i","t","i","o","n">>

\* /precision\s+\w+\s+float\s*;/ anchored at 0-based index i: the end (exclusive) of the
\* match, or -1. \s and \w are disjoint and neither holds "f" after \s+ nor ";" after \s*,
\* so the greedy runs are the only way to match.
PrecisionMatchEnd(s, i) ==
    IF ~OccursAt(s, PrecisionWord, i) THEN -1
    ELSE LET p1 == i + Len(PrecisionWord)
             p2 == SkipClass(s, p1, WhiteSpace)
             p3 == SkipClass(s, p2, WordChars)
             p4 == SkipClass(s, p3, WhiteSpace)
             p5 == p4 + Len(FloatWord)
             p6 == SkipClass(s, p5, WhiteSpace)
         IN  IF /\ p2 > p1
                /\ p3 > p2
                /\ p4 > p3
                /\ OccursAt(s, FloatWord, p4)
                /\ p6 < Len(s)
                /\ s[p6 + 1] = ";"
             THEN p6 + 1
             ELSE -1

\* fixedCode.match(/precision\s+\w+\s+float\s*;/): [0] of the leftmost match, <<>> for null
PrecisionMatch(s) ==
    LET hits == {i \in 0..Len(s) : PrecisionMatchEnd(s, i) # -1}
    IN  IF hits = {} THEN <<>>
        ELSE SubSeq(s, MinOf(hits) + 1, PrecisionMatchEnd(s, MinOf(hits)))

\* String.prototype.split(sep)
RECURSIVE Split(_, _)
Split(s, sep) ==
    LET i == IndexOf(s, sep)
    IN  IF i = -1 THEN <<s>>
        ELSE <<SubSeq(s, 1, i)>> \o Split(SubSeq(s, i + Len(sep) + 1, Len(s)), sep)

\* Array.prototype.join(sep)
RECURSIVE Join(_, _)
Join(lines, sep) ==
    IF Len(lines) = 0 THEN <<>>
    ELSE IF Len(lines) = 1 THEN lines[1]
    ELSE lines[1] \o sep \o Join(Tail(lines), sep)

\* lines.findIndex((line) => line.includes(pat)): 0-based, -1 when none
FindIndexIncludes(lines, pat) ==
    LET hits == {k \in 1..Len(lines) : Includes(lines[k], pat)}
    IN  IF hits = {} THEN -1 ELSE MinOf(hits) - 1

\* lines.splice(at, 0, item)
SpliceInsert(lines, at, item) ==
    SubSeq(lines, 1, at) \o <<item>> \o SubSeq(lines, at + 1, Len(lines))

\* lines 165-178: trim, then prepend the default or move the matched statement to the top
ensurePrecision(fragmentShaderCode) ==
    LET fixedCode == Trim(fragmentShaderCode)
        precisionStatement == PrecisionMatch(fixedCode)
    IN  IF ~Includes(fixedCode, PrecisionWord)
        THEN DefaultPrecision \o fixedCode
        ELSE IF precisionStatement # <<>>
        THEN precisionStatement \o <<"\n">> \o Trim(Replace(fixedCode, precisionStatement, <<>>))
        ELSE fixedCode

\* lines 181-208: the declarations queued for the text after the precision step
neededDeclarations(fixedCode) ==
    LET decl(name, text) ==
            IF Includes(fixedCode, name) /\ ~Includes(fixedCode, text)
            THEN text \o <<";", "\n">> ELSE <<>>
    IN  decl(TimeName, TimeDecl) \o decl(ResolutionName, ResolutionDecl)
        \o decl(VNormalName, VNormalDecl) \o decl(VPositionName, VPositionDecl)

\* lines 211-225: insert the queued block after the first line that includes "precision"
insertDeclarations(fixedCode, uniformDeclarations) ==
    IF uniformDeclarations = <<>> THEN fixedCode
    ELSE LET lines == Split(fixedCode, <<"\n">>)
             precisionLineIndex == FindIndexIncludes(lines, PrecisionWord)
         IN  IF precisionLineIndex # -1
             THEN Join(SpliceInsert(lines, precisionLineIndex + 1, Trim(uniformDeclarations)),
                       <<"\n">>)
             ELSE uniformDeclarations \o fixedCode

fixShaderIssues(fragmentShaderCode) ==
    LET fixedCode == ensurePrecision(fragmentShaderCode)
    IN  insertDeclarations(fixedCode, neededDeclarations(fixedCode))

(***************************************************************************)
(* Geometry: the number of floats getGeometryVertices returns              *)
(***************************************************************************)

UpperCase == <<"A","B","C","D","E","F","G","H","I","J","K","L","M","N","O","P","Q","R",
               "S","T","U","V","W","X","Y","Z">>

LowerCase == <<"a","b","c","d","e","f","g","h","i","j","k","l","m","n","o","p","q","r",
               "s","t","u","v","w","x","y","z">>

\* toLowerCase left out: the type is compared as it is written
KeepCase(s) == s

\* String.prototype.toLowerCase
ToLowerCase(s) ==
    [k \in 1..Len(s) |->
        IF \E u \in 1..Len(UpperCase) : UpperCase[u] = s[k]
        THEN LowerCase[CHOOSE u \in 1..Len(UpperCase) : UpperCase[u] = s[k]]
        ELSE s[k]]

\* generateSphere: per grid cell one triangle (3 vertices, 9 floats) for each of the two
\* conditions i !== 0 and i !== heightSegments - 1
generateSphereLength(widthSegments, heightSegments) ==
    9 * widthSegments * ( Cardinality({i \in 0..(heightSegments - 1) : i # 0})
                        + Cardinality({i \in 0..(heightSegments - 1) : i # heightSegments - 1}) )

\* generateCylinder: two triangles per segment
generateCylinderLength(segments) == 18 * segments

\* generateTorus: two triangles per grid cell
generateTorusLength(majorSegments, minorSegments) == 18 * majorSegments * minorSegments

\* getGeometryVertices(type).length
getGeometryVerticesLength(type) ==
    LET t == ToLowerCase(type)
    IN  CASE t = <<"c","u","b","e">> -> 108
          [] t = <<"s","p","h","e","r","e">> -> generateSphereLength(20, 20)
          [] t = <<"p","l","a","n","e">> -> 18
          [] t = <<"c","y","l","i","n","d","e","r">> -> generateCylinderLength(16)
          [] t = <<"t","o","r","u","s">> -> generateTorusLength(16, 16)
          [] OTHER -> 108

(***************************************************************************)
(* The geometry arrays. A number of the source is kept in hundredths, a    *)
(* vertex or a normal is a tuple <<x, y, z>>, and an array is the sequence *)
(* of its vertices (three numbers of the source's flat array each).        *)
(* Math.sin and Math.cos are taken at the angles the generators use, all   *)
(* multiples of pi / 40, and rounded to hundredths.                        *)
(***************************************************************************)

\* Math.sin(k * pi / 40) in hundredths, k = 0..20
QuarterSine == <<0, 8, 16, 23, 31, 38, 45, 52, 59, 65, 71, 76, 81, 85, 89, 92, 95, 97, 99, 100, 100>>

\* Math.sin and Math.cos of k * pi / 40
Sin(k) ==
    LET r == k % 80
    IN  IF r <= 20 THEN QuarterSine[r + 1]
        ELSE IF r <= 40 THEN QuarterSine[41 - r]
        ELSE IF r <= 60 THEN -QuarterSine[r - 39]
        ELSE -QuarterSine[81 - r]

Cos(k) == Sin(k + 20)

\* (num / den) * Math.PI in units of pi / 40
Angle(num, den) == (num * 40) \div den

\* x * y and x / y of two numbers in hundredths, rounded to hundredths
Mul(x, y) ==
    LET p == x * y
    IN  IF p >= 0 THEN (p + 50) \div 100 ELSE -((50 - p) \div 100)

Div(x, y) ==
    LET p == x * 100
    IN  IF p >= 0 THEN (2 * p + y) \div (2 * y) ELSE -((y - 2 * p) \div (2 * y))

\* a flat array literal of the source as a sequence of vertices
Points(flat) ==
    [k \in 1..(Len(flat) \div 3) |->
        <<100 * flat[3 * k - 2], 100 * flat[3 * k - 1], 100 * flat[3 * k]>>]

\* the cube literals of getGeometryVertices and getGeometryNormals (lines 309-322,
\* 347-360) and the literals of their default branches (lines 333-340, 371-377)
CubeVertices ==
    <<-1, -1, 1, 1, -1, 1, 1, 1, 1, -1, -1, 1, 1, 1, 1, -1, 1, 1,
      -1, -1, -1, -1, 1, -1, 1, 1, -1, -1, -1, -1, 1, 1, -1, 1, -1, -1,
      -1, 1, -1, -1, 1, 1, 1, 1, 1, -1, 1, -1, 1, 1, 1, 1, 1, -1,
      -1, -1, -1, 1, -1, -1, 1, -1, 1, -1, -1, -1, 1, -1, 1, -1, -1, 1,
      1, -1, -1, 1, 1, -1, 1, 1, 1, 1, -1, -1, 1, 1, 1, 1, -1, 1,
      -1, -1, -1, -1, -1, 1, -1, 1, 1, -1, -1, -1, -1, 1, 1, -1, 1, -1>>

CubeNormals ==
    <<0, 0, 1, 0, 0, 1, 0, 0, 1, 0, 0, 1, 0, 0, 1, 0, 0, 1,
      0, 0, -1, 0, 0, -1, 0, 0, -1, 0, 0, -1, 0, 0, -1, 0, 0, -1,
      0, 1, 0, 0, 1, 0, 0, 1, 0, 0, 1, 0, 0, 1, 0, 0, 1, 0,
      0, -1, 0, 0, -1, 0, 0, -1, 0, 0, -1, 0, 0, -1, 0, 0, -1, 0,
      1, 0, 0, 1, 0, 0, 1, 0, 0, 1, 0, 0, 1, 0, 0, 1, 0, 0,
      -1, 0, 0, -1, 0, 0, -1, 0, 0, -1, 0, 0, -1, 0, 0, -1, 0, 0>>

DefaultVertices ==
    <<-1, -1, 1, 1, -1, 1, 1, 1, 1, -1, -1, 1, 1, 1, 1, -1, 1, 1,
      -1, -1, -1, -1, 1, -1, 1, 1, -1, -1, -1, -1, 1, 1, -1, 1, -1, -1,
      -1, 1, -1, -1, 1, 1, 1, 1, 1, -1, 1, -1, 1, 1, 1, 1, 1, -1,
      -1, -1, -1, 1, -1, -1, 1, -1, 1, -1, -1, -1, 1, -1, 1, -1, -1, 1,
      1, -1, -1, 1, 1, -1, 1, 1, 1, 1, -1, -1, 1, 1, 1, 1, -1, 1,
      -1, -1, -1, -1, -1, 1, -1, 1, 1, -1, -1, -1, -1, 1, 1, -1, 1, -1>>

DefaultNormals ==
    <<0, 0, 1, 0, 0, 1, 0, 0, 1, 0, 0, 1, 0, 0, 1, 0, 0, 1,
      0, 0, -1, 0, 0, -1, 0, 0, -1, 0, 0, -1, 0, 0, -1, 0, 0, -1,
      0, 1, 0, 0, 1, 0, 0, 1, 0, 0, 1, 0, 0, 1, 0, 0, 1, 0,
      0, -1, 0, 0, -1, 0, 0, -1, 0, 0, -1, 0, 0, -1, 0, 0, -1, 0,
      1, 0, 0, 1, 0, 0, 1, 0, 0, 1, 0, 0, 1, 0, 0, 1, 0, 0,
      -1, 0, 0, -1, 0, 0, -1, 0, 0, -1, 0, 0, -1, 0, 0, -1, 0, 0>>

PlaneVertices == <<-2, 0, -2, 2, 0, -2, 2, 0, 2, -2, 0, -2, 2, 0, 2, -2, 0, 2>>

PlaneNormals == <<0, 1, 0, 0, 1, 0, 0, 1, 0, 0, 1, 0, 0, 1, 0, 0, 1, 0>>

\* variant of the inner triangle loop of generateSphere that emits both triangles of
\* every cell
RECURSIVE sphereRowBoth(_, _, _, _, _)
sphereRowBoth(V, widthSegments, heightSegments, i, j) ==
    IF j = widthSegments THEN <<>>
    ELSE LET a == i * (widthSegments + 1) + j
             b == a + widthSegments + 1
             c == a + 1
             d == b + 1
         IN  <<V[a], V[b], V[c], V[b], V[d], V[c]>>
                 \o sphereRowBoth(V, widthSegments, heightSegments, i, j + 1)

\* the inner triangle loop of generateSphere (lines 406-447): row i from cell j on; V is
\* the grid array
RECURSIVE sphereRow(_, _, _, _, _)
sphereRow(V, widthSegments, heightSegments, i, j) ==
    IF j = widthSegments THEN <<>>
    ELSE LET a == i * (widthSegments + 1) + j
             b == a + widthSegments + 1
             c == a + 1
             d == b + 1
         IN  (IF i # 0 THEN <<V[a], V[b], V[c]>> ELSE <<>>)
                 \o (IF i # heightSegments - 1 THEN <<V[b], V[d], V[c]>> ELSE <<>>)
                 \o sphereRow(V, widthSegments, heightSegments, i, j + 1)

\* the outer triangle loop of generateSphere (lines 405-448), from row i on
RECURSIVE sphereTriangles(_, _, _, _)
sphereTriangles(V, widthSegments, heightSegments, i) ==
    IF i = heightSegments THEN <<>>
    ELSE sphereRow(V, widthSegments, heightSegments, i, 0)
             \o sphereTriangles(V, widthSegments, heightSegments, i + 1)

\* the inner triangle loop of generateSphereNormals (lines 477-518): row i from cell j
\* on; N is the grid array of normals
RECURSIVE sphereNormalsRow(_, _, _, _, _)
sphereNormalsRow(N, widthSegments, heightSegments, i, j) ==
    IF j = widthSegments THEN <<>>
    ELSE LET a == i * (widthSegments + 1) + j
             b == a + widthSegments + 1
             c == a + 1
             d == b + 1
         IN  (IF i # 0 THEN <<N[a], N[b], N[c]>> ELSE <<>>)
                 \o (IF i # heightSegments - 1 THEN <<N[b], N[d], N[c]>> ELSE <<>>)
                 \o sphereNormalsRow(N, widthSegments, heightSegments, i, j + 1)

\* the outer triangle loop of generateSphereNormals (lines 476-519), from row i on
RECURSIVE sphereNormalsTriangles(_, _, _, _)
sphereNormalsTriangles(N, widthSegments, heightSegments, i) ==
    IF i = heightSegments THEN <<>>
    ELSE sphereNormalsRow(N, widthSegments, heightSegments, i, 0)
             \o sphereNormalsTriangles(N, widthSegments, heightSegments, i + 1)

\* variant of the outer loop with that inner loop
RECURSIVE sphereTrianglesAllRows(_, _, _, _)
sphereTrianglesAllRows(V, widthSegments, heightSegments, i) ==
    IF i = heightSegments THEN <<>>
    ELSE sphereRowBoth(V, widthSegments, heightSegments, i, 0)
             \o sphereTrianglesAllRows(V, widthSegments, heightSegments, i + 1)

\* variant of generateSphere with that loop
generateSphereAllRows(radius, widthSegments, heightSegments) ==
    LET vertices ==
            [n \in 0..((heightSegments + 1) * (widthSegments + 1) - 1) |->
                LET phi == Angle(n \div (widthSegments + 1), heightSegments)
                    theta == Angle(2 * (n % (widthSegments + 1)), widthSegments)
                IN  << Mul(Mul(-radius, Cos(theta)), Sin(phi)),
                       Mul(radius, Cos(phi)),
                       Mul(Mul(radius, Sin(theta)), Sin(phi)) >>]
    IN  sphereTrianglesAllRows(vertices, widthSegments, heightSegments, 0)

\* generateSphere (lines 382-451): the grid of (heightSegments + 1) rows of
\* (widthSegments + 1) vertices, then the triangles
generateSphere(radius, widthSegments, heightSegments) ==
    LET vertices ==
            [n \in 0..((heightSegments + 1) * (widthSegments + 1) - 1) |->
                LET phi == Angle(n \div (widthSegments + 1), heightSegments)
                    theta == Angle(2 * (n % (widthSegments + 1)), widthSegments)
                IN  << Mul(Mul(-radius, Cos(theta)), Sin(phi)),
                       Mul(radius, Cos(phi)),
                       Mul(Mul(radius, Sin(theta)), Sin(phi)) >>]
    IN  sphereTriangles(vertices, widthSegments, heightSegments, 0)

\* generateSphereNormals (lines 453-522)
generateSphereNormals(radius, widthSegments, heightSegments) ==
    LET normals ==
            [n \in 0..((heightSegments + 1) * (widthSegments + 1) - 1) |->
                LET phi == Angle(n \div (widthSegments + 1), heightSegments)
                    theta == Angle(2 * (n % (widthSegments + 1)), widthSegments)
                IN  << Mul(-Cos(theta), Sin(phi)),
                       Cos(phi),
                       Mul(Sin(theta), Sin(phi)) >>]
    IN  sphereNormalsTriangles(normals, widthSegments, heightSegments, 0)

\* the triangle loop of generateCylinder and of generateCylinderNormals from segment i on
RECURSIVE cylinderTriangles(_, _, _)
cylinderTriangles(V, segments, i) ==
    IF i = segments THEN <<>>
    ELSE LET a == i * 2
             b == a + 1
             c == ((i + 1) % segments) * 2
             d == c + 1
         IN  <<V[a], V[c], V[b], V[b], V[c], V[d]>> \o cylinderTriangles(V, segments, i + 1)

\* generateCylinder (lines 524-563): a bottom and a top vertex per angle, then the sides
generateCylinder(radius, height, segments) ==
    LET halfHeight == height \div 2
        vertices ==
            [n \in 0..(2 * (segments + 1) - 1) |->
                LET theta == Angle(2 * (n \div 2), segments)
                    x == Mul(radius, Cos(theta))
                    z == Mul(radius, Sin(theta))
                IN  IF n % 2 = 0 THEN <<x, -halfHeight, z>> ELSE <<x, halfHeight, z>>]
    IN  cylinderTriangles(vertices, segments, 0)

\* generateCylinderNormals (lines 565-623)
generateCylinderNormals(radius, height, segments) ==
    LET normals ==
            [n \in 0..(2 * (segments + 1) - 1) |->
                LET theta == Angle(2 * (n \div 2), segments)
                IN  <<Cos(theta), 0, Sin(theta)>>]
    IN  cylinderTriangles(normals, segments, 0)

\* the inner triangle loop of generateTorus and of generateTorusNormals: row i from
\* cell j on
RECURSIVE torusRow(_, _, _, _)
torusRow(V, minorSegments, i, j) ==
    IF j = minorSegments THEN <<>>
    ELSE LET a == i * (minorSegments + 1) + j
             b == a + minorSegments + 1
             c == a + 1
             d == b + 1
         IN  <<V[a], V[b], V[c], V[b], V[d], V[c]>> \o torusRow(V, minorSegments, i, j + 1)

\* the outer triangle loop, from row i on
RECURSIVE torusTriangles(_, _, _, _)
torusTriangles(V, majorSegments, minorSegments, i) ==
    IF i = majorSegments THEN <<>>
    ELSE torusRow(V, minorSegments, i, 0)
             \o torusTriangles(V, majorSegments, minorSegments, i + 1)

\* generateTorus (lines 625-690)
generateTorus(majorRadius, minorRadius, majorSegments, minorSegments) ==
    LET vertices ==
            [n \in 0..((majorSegments + 1) * (minorSegments + 1) - 1) |->
                LET u == Angle(2 * (n \div (minorSegments + 1)), majorSegments)
                    v == Angle(2 * (n % (minorSegments + 1)), minorSegments)
                IN  << Mul(majorRadius + Mul(minorRadius, Cos(v)), Cos(u)),
                       Mul(minorRadius, Sin(v)),
                       Mul(majorRadius + Mul(minorRadius, Cos(v)), Sin(u)) >>]
    IN  torusTriangles(vertices, majorSegments, minorSegments, 0)

\* generateTorusNormals (lines 692-764): the vertex minus the centre of its tube circle,
\* over the minor radius
generateTorusNormals(majorRadius, minorRadius, majorSegments, minorSegments) ==
    LET normals ==
            [n \in 0..((majorSegments + 1) * (minorSegments + 1) - 1) |->
                LET u == Angle(2 * (n \div (minorSegments + 1)), majorSegments)
                    v == Angle(2 * (n % (minorSegments + 1)), minorSegments)
                    centerX == Mul(majorRadius, Cos(u))
                    centerZ == Mul(majorRadius, Sin(u))
                    x == Mul(majorRadius + Mul(minorRadius, Cos(v)), Cos(u))
                    y == Mul(minorRadius, Sin(v))
                    z == Mul(majorRadius + Mul(minorRadius, Cos(v)), Sin(u))
                IN  << Div(x - centerX, minorRadius),
                       Div(y, minorRadius),
                       Div(z - centerZ, minorRadius) >>]
    IN  torusTriangles(normals, majorSegments, minorSegments, 0)

CubeName == <<"c","u","b","e">>

SphereName == <<"s","p","h","e","r","e">>

PlaneName == <<"p","l","a","n","e">>

CylinderName == <<"c","y","l","i","n","d","e","r">>

TorusName == <<"t","o","r","u","s">>

\* the generator calls of getGeometryVertices (lines 324, 328, 330) and of
\* getGeometryNormals (lines 362, 366, 368)
SphereVertices == generateSphere(100, 20, 20)

CylinderVertices == generateCylinder(100, 200, 16)

TorusVertices == generateTorus(60, 30, 16, 16)

SphereNormals == generateSphereNormals(100, 20, 20)

CylinderNormals == generateCylinderNormals(100, 200, 16)

TorusNormals == generateTorusNormals(60, 30, 16, 16)

\* getGeometryVertices (lines 306-342)
getGeometryVertices(type) ==
    LET t == ToLowerCase(type)
    IN  CASE t = CubeName -> Points(CubeVertices)
          [] t = SphereName -> SphereVertices
          [] t = PlaneName -> Points(PlaneVertices)
          [] t = CylinderName -> CylinderVertices
          [] t = TorusName -> TorusVertices
          [] OTHER -> Points(DefaultVertices)

\* getGeometryNormals (lines 344-379)
getGeometryNormals(type) ==
    LET t == ToLowerCase(type)
    IN  CASE t = CubeName -> Points(CubeNormals)
          [] t = SphereName -> SphereNormals
          [] t = PlaneName -> Points(PlaneNormals)
          [] t = CylinderName -> CylinderNormals
          [] t = TorusName -> TorusNormals
          [] OTHER -> Points(DefaultNormals)

(***************************************************************************)
(* The WebGL device: dev = [next, shaders, programs, buffers, errors]      *)
(* A handle is a positive integer, 0 is null. dev.shaders, dev.programs    *)
(* and dev.buffers hold the objects that are created and not deleted;      *)
(* dev.errors holds the error flags the device has set (the component      *)
(* never calls gl.getError, so a flag stays).                              *)
(***************************************************************************)

\* name occurs in s as a whole word: an identifier of the source
UsesName(s, name) ==
    \E i \in 0..Len(s) :
        /\ OccursAt(s, name, i)
        /\ i = 0 \/ s[i] \notin WordChars
        /\ i + Len(name) = Len(s) \/ s[i + Len(name) + 1] \notin WordChars

PositionName == <<"p","o","s","i","t","i","o","n">>

NormalName == <<"n","o","r","m","a","l">>

ModelMatrixName == <<"m","o","d","e","l","M","a","t","r","i","x">>

ViewMatrixName == <<"v","i","e","w","M","a","t","r","i","x">>

ProjectionMatrixName == <<"p","r","o","j","e","c","t","i","o","n","M","a","t","r","i","x">>

\* the source of a shader stage of a program of the device
StageSource(d, program, type) ==
    LET p == CHOOSE x \in d.programs : x.id = program
        id == IF type = "VERTEX_SHADER" THEN p.vertexShader ELSE p.fragmentShader
    IN  (CHOOSE x \in d.shaders : x.id = id).source

\* gl.getAttribLocation(program, name): the index of an attribute of the vertex stage,
\* -1 for a name that is not one
getAttribLocation(d, program, name) ==
    IF ~UsesName(StageSource(d, program, "VERTEX_SHADER"), name) THEN -1
    ELSE IF name = PositionName THEN 0
    ELSE IF UsesName(StageSource(d, program, "VERTEX_SHADER"), PositionName) THEN 1
    ELSE 0

\* gl.getUniformLocation(program, name): TRUE for a location, FALSE for null, which is
\* what a name that is no uniform of either stage gets
getUniformLocation(d, program, name) ==
    \/ UsesName(StageSource(d, program, "VERTEX_SHADER"), name)
    \/ UsesName(StageSource(d, program, "FRAGMENT_SHADER"), name)

\* gl.enableVertexAttribArray(index) and gl.vertexAttribPointer(index, ...): an index
\* that is no attribute index (-1 as an unsigned number) sets INVALID_VALUE
attribCall(d, index) ==
    IF index < 0 THEN [d EXCEPT !.errors = @ \cup {"INVALID_VALUE"}] ELSE d

CompileErrorMsg == "Shader compilation error"

LinkErrorMsg == "Program linking error"

FailedCompileMsg == "Failed to compile shaders"

FailedProgramMsg == "Failed to create shader program"

\* createShader(gl, type, source); compiles is the device's COMPILE_STATUS for the
\* source, lost makes gl.createShader return null
createShader(d, type, source, compiles, lost) ==
    IF lost THEN [dev |-> d, shader |-> 0, thrown |-> NoError]
    ELSE LET shader == d.next
             created == [d EXCEPT !.next = shader + 1,
                                  !.shaders = @ \cup {[id |-> shader, type |-> type,
                                                       source |-> source]}]
         IN  IF ~compiles
             THEN [dev |-> [created EXCEPT !.shaders = {x \in @ : x.id # shader}],
                   shader |-> 0, thrown |-> CompileErrorMsg]
             ELSE [dev |-> created, shader |-> shader, thrown |-> NoError]

\* createProgram(gl, vertexShader, fragmentShader); links is the device's LINK_STATUS
createProgram(d, vertexShader, fragmentShader, links, lost) ==
    IF lost THEN [dev |-> d, program |-> 0, thrown |-> NoError]
    ELSE LET program == d.next
             created == [d EXCEPT !.next = program + 1,
                                  !.programs = @ \cup {[id |-> program,
                                                        vertexShader |-> vertexShader,
                                                        fragmentShader |-> fragmentShader]}]
         IN  IF ~links
             THEN [dev |-> [created EXCEPT !.programs = {x \in @ : x.id # program}],
                   program |-> 0, thrown |-> LinkErrorMsg]
             ELSE [dev |-> created, program |-> program, thrown |-> NoError]

\* setupGeometry(gl, program, geometryType): the vertex count, the two buffers, and the
\* enable and pointer calls for the two attribute locations (lines 296-303), made
\* whatever getAttribLocation returned
setupGeometry(d, program, geometryType) ==
    LET floats == getGeometryVerticesLength(geometryType)
        positionBuffer == d.next
        normalBuffer == d.next + 1
        uploaded == [d EXCEPT !.next = d.next + 2,
                              !.buffers = @ \cup {[id |-> positionBuffer, floats |-> floats],
                                                  [id |-> normalBuffer, floats |-> floats]}]
        positionLocation == getAttribLocation(d, program, PositionName)
        normalLocation == getAttribLocation(d, program, NormalName)
    IN  [vertexCount |-> floats \div 3,
         dev |-> attribCall(attribCall(attribCall(attribCall(uploaded, positionLocation),
                                                  positionLocation),
                                       normalLocation),
                            normalLocation)]

(***************************************************************************)
(* The component's mutable state as one record, so that renderShader and   *)
(* animate are functions from state to state. thrown is the Error the call *)
(* propagates to its caller (NoError when it returns).                     *)
(***************************************************************************)

Machine ==
    [canvasRef |-> canvasRef, glRef |-> glRef, programRef |-> programRef,
     startTimeRef |-> startTimeRef, vertexCountRef |-> vertexCountRef,
     animationRef |-> animationRef, dev |-> dev, pending |-> pending,
     nextFrameId |-> nextFrameId, draws |-> draws, error |-> error, thrown |-> NoError]

WebGLUnsupportedMsg == "WebGL not supported in this browser"

\* the error state: the text setError is given, as a fixed prefix and a message
ErrorText(prefix, message) == [prefix |-> prefix, message |-> message]

NoErrorText == ErrorText("", "")

RenderFailedPrefix == "Shader compilation failed: "

\* variant of animate that draws the 36 vertices of the cube whatever the geometry
animateCubeCount(m) ==
    IF ~m.glRef \/ m.programRef = 0 THEN m
    ELSE IF ~m.canvasRef THEN m
    ELSE [m EXCEPT !.draws = Append(@, [program |-> m.programRef,
                                        mode |-> "TRIANGLES",
                                        count |-> 36,
                                        elapsed |-> now - m.startTimeRef,
                                        uniforms |-> {}]),
                   !.animationRef = m.nextFrameId,
                   !.pending = @ \cup {m.nextFrameId},
                   !.nextFrameId = @ + 1]

\* variant of animate without the canvas test of lines 771-772
animateWithoutCanvas(m) ==
    IF ~m.glRef \/ m.programRef = 0 THEN m
    ELSE [m EXCEPT !.draws = Append(@, [program |-> m.programRef,
                                        mode |-> "TRIANGLES",
                                        count |-> m.vertexCountRef,
                                        elapsed |-> now - m.startTimeRef,
                                        uniforms |-> {}]),
                   !.animationRef = m.nextFrameId,
                   !.pending = @ \cup {m.nextFrameId},
                   !.nextFrameId = @ + 1]

\* the uniforms animate looks up, in the order of lines 786-811
UniformNames ==
    <<TimeName, ResolutionName, ModelMatrixName, ViewMatrixName, ProjectionMatrixName>>

\* animate (lines 766-820): the uniforms that have a location are uploaded, then one draw
\* call with the current program and vertex count, then requestAnimationFrame(animate).
\* The elapsed time stays in milliseconds.
animate(m) ==
    IF ~m.glRef \/ m.programRef = 0 THEN m
    ELSE IF ~m.canvasRef THEN m
    ELSE [m EXCEPT !.draws = Append(@, [program |-> m.programRef,
                                        mode |-> "TRIANGLES",
                                        count |-> m.vertexCountRef,
                                        elapsed |-> now - m.startTimeRef,
                                        uniforms |->
                                            {k \in 1..Len(UniformNames) :
                                                getUniformLocation(m.dev, m.programRef,
                                                                   UniformNames[k])}]),
                   !.animationRef = m.nextFrameId,
                   !.pending = @ \cup {m.nextFrameId},
                   !.nextFrameId = @ + 1]

\* lines 104-119: both stages are compiled, then linked; d is the device's answer
\* [vertexCompiles, fragmentCompiles, links, lost]
buildProgram(device, vertexShaderCode, fragmentShaderCode, d) ==
    LET vs == createShader(device, "VERTEX_SHADER", vertexShaderCode,
                           d.vertexCompiles, d.lost)
        fs == createShader(vs.dev, "FRAGMENT_SHADER", fragmentShaderCode,
                           d.fragmentCompiles, d.lost)
        pr == createProgram(fs.dev, vs.shader, fs.shader, d.links, d.lost)
    IN  IF vs.thrown # NoError THEN [dev |-> vs.dev, program |-> 0, thrown |-> vs.thrown]
        ELSE IF fs.thrown # NoError THEN [dev |-> fs.dev, program |-> 0, thrown |-> fs.thrown]
        ELSE IF vs.shader = 0 \/ fs.shader = 0
        THEN [dev |-> fs.dev, program |-> 0, thrown |-> FailedCompileMsg]
        ELSE IF pr.thrown # NoError THEN [dev |-> pr.dev, program |-> 0, thrown |-> pr.thrown]
        ELSE IF pr.program = 0
        THEN [dev |-> pr.dev, program |-> 0, thrown |-> FailedProgramMsg]
        ELSE [dev |-> pr.dev, program |-> pr.program, thrown |-> NoError]

\* variant of finishRender that assigns programRef before looking at the failure
finishRenderAssignFirst(m, built, geometryType) ==
    IF built.thrown # NoError
    THEN [m EXCEPT !.dev = built.dev, !.programRef = built.program, !.thrown = built.thrown]
    ELSE LET g == setupGeometry(built.dev, built.program, geometryType)
         IN  animate([m EXCEPT !.programRef = built.program,
                               !.dev = g.dev,
                               !.vertexCountRef = g.vertexCount,
                               !.startTimeRef = now])

\* lines 111-133: a failure of the build propagates; otherwise the program becomes the
\* current one, the geometry is set up, the start time is taken and animate is called
finishRender(m, built, geometryType) ==
    IF built.thrown # NoError
    THEN [m EXCEPT !.dev = built.dev, !.thrown = built.thrown]
    ELSE LET g == setupGeometry(built.dev, built.program, geometryType)
         IN  animate([m EXCEPT !.programRef = built.program,
                               !.dev = g.dev,
                               !.vertexCountRef = g.vertexCount,
                               !.startTimeRef = now])

\* variant of renderPipeline that compiles before it looks at the parse failure
renderPipelineCompileFirst(m, code, d) ==
    LET parsed == split(code)
        built == buildProgram(m.dev, parsed.vertex, fixShaderIssues(parsed.fragment), d)
    IN  IF parsed.thrown # NoError
        THEN [m EXCEPT !.dev = built.dev, !.thrown = parsed.thrown]
        ELSE finishRender(m, built, extractGeometryType(code))

\* the try block of renderShader (lines 86-133)
renderPipeline(m, code, d) ==
    LET parsed == split(code)
    IN  IF parsed.thrown # NoError
        THEN [m EXCEPT !.thrown = parsed.thrown]
        ELSE finishRender(m,
                          buildProgram(m.dev, parsed.vertex,
                                       fixShaderIssues(parsed.fragment), d),
                          extractGeometryType(code))

\* renderShader (lines 74-134)
renderShader(m, code, d) ==
    IF ~m.canvasRef THEN m
    ELSE IF ~webglSupported THEN [m EXCEPT !.error = ErrorText("", WebGLUnsupportedMsg)]
    ELSE renderPipeline([m EXCEPT !.glRef = TRUE], code, d)

(***************************************************************************)
(* Bounds and inputs of the pipeline specification                         *)
(***************************************************************************)

\* device handles the model hands out (a successful renderShader takes five)
MaxHandles == 10

\* requestAnimationFrame ids the model hands out
MaxFrameId == 4

\* milliseconds the clock advances
MaxClock == 1

\* the text of the description box
Descriptions == {<<>>, <<" ">>, <<"a">>}

\* "// Vertex Shader\nposition normal\n// Fragment Shader\ntime": both markers, both
\* attributes, the default geometry
BundleCube ==
    VertexMarker \o <<"\n">> \o PositionName \o <<" ">> \o NormalName \o <<"\n">>
        \o FragmentMarker \o <<"\n">> \o TimeName

\* "// Vertex Shader\nposition\n// Fragment Shader\nf\n// GEOMETRY: Plane": no normal
\* attribute, no uniform, a plane
BundlePlane ==
    VertexMarker \o <<"\n">> \o PositionName \o <<"\n">> \o FragmentMarker
        \o <<"\n","f","\n">> \o GeometryMarker \o <<" ","P","l","a","n","e">>

\* no fragment marker
BundleNoFragment == VertexMarker \o <<"\n","v">>

\* no vertex marker
BundleNoVertex == FragmentMarker \o <<"\n","f">>

PipelineBundles == {BundleCube, BundlePlane, BundleNoFragment, BundleNoVertex}

\* what the device answers to one renderShader call
DeviceAnswers ==
    [vertexCompiles : BOOLEAN, fragmentCompiles : BOOLEAN, links : BOOLEAN, lost : BOOLEAN]

(***************************************************************************)
(* The component: initial state and handlers                               *)
(***************************************************************************)

InitText ==
    /\ input = <<>>
    /\ stage = "idle"
    /\ output = <<>>
    /\ output2 = <<>>

\* the state after the first render of the component (lines 10-19)
InitPipeline ==
    /\ description = <<>>
    /\ shaderCode = <<>>
    /\ error = NoErrorText
    /\ isLoading = FALSE
    /\ canvasRef = TRUE
    /\ animationRef = 0
    /\ glRef = FALSE
    /\ programRef = 0
    /\ startTimeRef = 0
    /\ vertexCountRef = 36
    /\ dev = [next |-> 1, shaders |-> {}, programs |-> {}, buffers |-> {}, errors |-> {}]
    /\ pending = {}
    /\ nextFrameId = 1
    /\ now = 0
    /\ fetching = 0
    /\ draws = <<>>

Init ==
    /\ InitPipeline
    /\ webglSupported \in BOOLEAN
    /\ InitText

\* the refs and host objects of a machine record written back to the variables
Commit(m) ==
    /\ glRef' = m.glRef
    /\ programRef' = m.programRef
    /\ startTimeRef' = m.startTimeRef
    /\ vertexCountRef' = m.vertexCountRef
    /\ animationRef' = m.animationRef
    /\ dev' = m.dev
    /\ pending' = m.pending
    /\ nextFrameId' = m.nextFrameId
    /\ draws' = m.draws

\* onChange of the textarea (line 879)
SetDescription(text) ==
    /\ canvasRef
    /\ description # text
    /\ description' = text
    /\ UNCHANGED <<shaderCode, error, isLoading, canvasRef, animationRef, glRef, programRef,
                   startTimeRef, vertexCountRef, webglSupported, dev, pending, nextFrameId,
                   now, fetching, draws>>

\* variant of GenerateShader for a button that stays enabled while a request is loading
GenerateShaderWhileLoading ==
    /\ canvasRef
    /\ IF Trim(description) = <<>>
       THEN /\ error' = ErrorText("", "Please enter a description")
            /\ UNCHANGED <<isLoading, shaderCode, fetching>>
       ELSE /\ isLoading' = TRUE
            /\ error' = NoErrorText
            /\ shaderCode' = <<>>
            /\ fetching' = fetching + 1
    /\ UNCHANGED <<description, canvasRef, animationRef, glRef, programRef, startTimeRef,
                   vertexCountRef, webglSupported, dev, pending, nextFrameId, now, draws>>

\* generateShader up to its await (lines 21-42), from the button that isLoading disables
\* (line 924)
GenerateShader ==
    /\ canvasRef
    /\ ~isLoading
    /\ IF Trim(description) = <<>>
       THEN /\ error' = ErrorText("", "Please enter a description")
            /\ UNCHANGED <<isLoading, shaderCode, fetching>>
       ELSE /\ isLoading' = TRUE
            /\ error' = NoErrorText
            /\ shaderCode' = <<>>
            /\ fetching' = fetching + 1
    /\ UNCHANGED <<description, canvasRef, animationRef, glRef, programRef, startTimeRef,
                   vertexCountRef, webglSupported, dev, pending, nextFrameId, now, draws>>

\* the fetch resolves with success and a shader code (lines 44-60, 69-71)
FetchSuccess(code, d) ==
    /\ fetching > 0
    /\ canvasRef => (dev.next + 4 <= MaxHandles /\ nextFrameId <= MaxFrameId)
    /\ LET m == renderShader([Machine EXCEPT !.draws = <<>>], code, d)
       IN  /\ Commit(m)
           /\ error' = IF m.thrown # NoError
                       THEN ErrorText(RenderFailedPrefix, m.thrown)
                       ELSE m.error
    /\ shaderCode' = code
    /\ isLoading' = FALSE
    /\ fetching' = fetching - 1
    /\ UNCHANGED <<description, canvasRef, webglSupported, now>>

\* the fetch resolves without success or without a shader code (lines 61-63, 69-71)
FetchRejected(message) ==
    /\ fetching > 0
    /\ error' = ErrorText("", IF message # "" THEN message ELSE "Failed to generate shader")
    /\ isLoading' = FALSE
    /\ fetching' = fetching - 1
    /\ UNCHANGED <<description, shaderCode, canvasRef, animationRef, glRef, programRef,
                   startTimeRef, vertexCountRef, webglSupported, dev, pending, nextFrameId,
                   now, draws>>

\* fetch or response.json() rejects (lines 64-71)
FetchFailed ==
    /\ fetching > 0
    /\ error' = ErrorText("", "Failed to connect to backend. Make sure the Elixir server is running on port 4000.")
    /\ isLoading' = FALSE
    /\ fetching' = fetching - 1
    /\ UNCHANGED <<description, shaderCode, canvasRef, animationRef, glRef, programRef,
                   startTimeRef, vertexCountRef, webglSupported, dev, pending, nextFrameId,
                   now, draws>>

RECURSIVE RunCallbacks(_, _)
RunCallbacks(m, n) == IF n = 0 THEN m ELSE RunCallbacks(animate(m), n - 1)

\* one display frame: the host runs every callback that requestAnimationFrame queued
\* before the frame; each is animate (line 819)
DisplayFrame ==
    /\ pending # {}
    /\ canvasRef => nextFrameId + Cardinality(pending) - 1 <= MaxFrameId
    /\ Commit(RunCallbacks([Machine EXCEPT !.pending = {}, !.draws = <<>>],
                           Cardinality(pending)))
    /\ UNCHANGED <<description, shaderCode, error, isLoading, canvasRef, webglSupported,
                   now, fetching>>

\* Date.now() advances
Tick ==
    /\ now < MaxClock
    /\ now' = now + 1
    /\ UNCHANGED <<description, shaderCode, error, isLoading, canvasRef, animationRef, glRef,
                   programRef, startTimeRef, vertexCountRef, webglSupported, dev, pending,
                   nextFrameId, fetching, draws>>

\* the cleanup of the effect (lines 857-863) when the component unmounts; React clears
\* the canvas ref
Unmount ==
    /\ canvasRef
    /\ canvasRef' = FALSE
    /\ pending' = IF animationRef # 0 THEN pending \ {animationRef} ELSE pending
    /\ UNCHANGED <<description, shaderCode, error, isLoading, animationRef, glRef, programRef,
                   startTimeRef, vertexCountRef, webglSupported, dev, nextFrameId, now,
                   fetching, draws>>

Next ==
    \/ /\ \E text \in Descriptions : SetDescription(text)
       /\ UNCHANGED textVars
    \/ /\ GenerateShader
       /\ UNCHANGED textVars
    \/ /\ \E code \in PipelineBundles, d \in DeviceAnswers : FetchSuccess(code, d)
       /\ UNCHANGED textVars
    \/ /\ \E message \in {"", "backend error"} : FetchRejected(message)
       /\ UNCHANGED textVars
    \/ /\ FetchFailed
       /\ UNCHANGED textVars
    \/ /\ DisplayFrame
       /\ UNCHANGED textVars
    \/ /\ Tick
       /\ UNCHANGED textVars
    \/ /\ Unmount
       /\ UNCHANGED textVars

Spec == Init /\ [][Next]_vars

\* the host keeps running the callbacks that requestAnimationFrame queued (line 819) after
\* the component is gone: a display frame that stays possible then happens
SpecFrames == Spec /\ WF_vars(~canvasRef /\ DisplayFrame /\ UNCHANGED textVars)

(***************************************************************************)
(* The pure text functions applied to bounded inputs                       *)
(***************************************************************************)

\* pieces an input is concatenated from
MaxBundlePieces == 3

MaxFragmentPieces == 3

RECURSIVE Flatten(_)
Flatten(pieces) == IF pieces = <<>> THEN <<>> ELSE Head(pieces) \o Flatten(Tail(pieces))

Concatenations(pieces, n) == {Flatten(ps) : ps \in UNION {[1..k -> pieces] : k \in 0..n}}

\* the two markers, a marker in another case, a marker in two halves, other text
BundlePieces ==
    { VertexMarker,
      FragmentMarker,
      <<"/","/"," ","v","e","r","t","e","x"," ","s","h","a","d","e","r">>,
      <<"/","/"," ","F","r","a","g","m","e","n","t">>,
      <<" ","S","h","a","d","e","r">>,
      <<"\n","v","\n">> }

\* precision statements (plain, over several lines, naming a recognized identifier,
\* non-float), the word precision in a comment and in an identifier, uses and
\* declarations of recognized identifiers, the declaration of a longer name
FragmentPieces ==
    { <<"p","r","e","c","i","s","i","o","n"," ","m","e","d","i","u","m","p"," ","f","l","o","a","t",";">>,
      <<"p","r","e","c","i","s","i","o","n","\n","h","i","g","h","p","\n","f","l","o","a","t",";">>,
      <<"p","r","e","c","i","s","i","o","n"," ","t","i","m","e"," ","f","l","o","a","t",";">>,
      <<"/","/"," ","p","r","e","c","i","s","i","o","n","\n">>,
      <<"p","r","e","c","i","s","i","o","n"," ","h","i","g","h","p"," ","i","n","t",";">>,
      <<"\n">>,
      <<"c","=","t","i","m","e",";">>,
      <<"u","n","i","f","o","r","m"," ","f","l","o","a","t"," ","t","i","m","e",";">>,
      <<"v","N","o","r","m","a","l">>,
      <<"f","l","o","a","t"," ","p","r","e","c","i","s","i","o","n","X",";">>,
      <<"u","n","i","f","o","r","m"," ","f","l","o","a","t"," ","t","i","m","e","S","c","a","l","e",";">> }

InitSplit ==
    /\ InitPipeline
    /\ webglSupported = TRUE
    /\ input \in Concatenations(BundlePieces, MaxBundlePieces)
    /\ stage = "input"
    /\ output = <<>>
    /\ output2 = <<>>

\* split applied to the input
ApplySplit ==
    /\ stage = "input"
    /\ output' = split(input)
    /\ stage' = "split"
    /\ UNCHANGED <<input, output2>>
    /\ UNCHANGED pipelineVars

NextSplit == ApplySplit

SpecSplit == InitSplit /\ [][NextSplit]_vars

InitRepair ==
    /\ InitPipeline
    /\ webglSupported = TRUE
    /\ input \in Concatenations(FragmentPieces, MaxFragmentPieces)
    /\ stage = "input"
    /\ output = <<>>
    /\ output2 = <<>>

\* repair applied to the input
ApplyRepair ==
    /\ stage = "input"
    /\ output' = fixShaderIssues(input)
    /\ stage' = "repaired"
    /\ UNCHANGED <<input, output2>>
    /\ UNCHANGED pipelineVars

\* repair applied to its own output
ApplyRepairAgain ==
    /\ stage = "repaired"
    /\ output2' = fixShaderIssues(output)
    /\ stage' = "repairedTwice"
    /\ UNCHANGED <<input, output>>
    /\ UNCHANGED pipelineVars

NextRepair == ApplyRepair \/ ApplyRepairAgain

SpecRepair == InitRepair /\ [][NextRepair]_vars

\* pieces a bundle's geometry tag is put together from
MaxGeometryPieces == 3

\* the marker, white space, the five names in some case, a name that is none of them
GeometryPieces ==
    { GeometryMarker,
      <<" ">>,
      <<"T","o","r","u","s">>,
      <<"S","P","H","E","R","E">>,
      <<"p","l","a","n","e">>,
      <<"C","y","l","i","n","d","e","r">>,
      <<"c","u","b","e">>,
      <<"b","l","o","b">> }

InitGeometry ==
    /\ InitPipeline
    /\ webglSupported = TRUE
    /\ input \in Concatenations(GeometryPieces, MaxGeometryPieces)
    /\ stage = "input"
    /\ output = <<>>
    /\ output2 = <<>>

\* line 90 of renderShader and lines 276-280 of setupGeometry: the geometry type of the
\* bundle, its two arrays and the vertex count
ResolveGeometry ==
    /\ stage = "input"
    /\ LET geometryType == extractGeometryType(input)
       IN  output' = [geometryType |-> geometryType,
                      vertexCount |-> Len(getGeometryVertices(geometryType)),
                      normalCount |-> Len(getGeometryNormals(geometryType))]
    /\ stage' = "geometry"
    /\ UNCHANGED <<input, output2>>
    /\ UNCHANGED pipelineVars

\* gl.drawArrays(gl.TRIANGLES, ...) assembles triangle k from the vertices 3k-2, 3k-1, 3k
\* of the position array and of the normal array
AssembleTriangle ==
    /\ stage = "geometry"
    /\ LET vertices == getGeometryVertices(output.geometryType)
           normals == getGeometryNormals(output.geometryType)
       IN  \E k \in 1..(output.vertexCount \div 3) :
               output2' = [index |-> k,
                           corners |-> SubSeq(vertices, 3 * k - 2, 3 * k),
                           normals |-> SubSeq(normals, 3 * k - 2, 3 * k)]
    /\ stage' = "triangle"
    /\ UNCHANGED <<input, output>>
    /\ UNCHANGED pipelineVars

NextGeometry == ResolveGeometry \/ AssembleTriangle

SpecGeometry == InitGeometry /\ [][NextGeometry]_vars

\* segments of the sphere grids the walk is followed on, beside the 20 x 20 of the calls
MaxSegments == 4

\* the grid sizes: two rows at least, so that the first row is not the last
SphereGrids ==
    {[widthSegments |-> w, heightSegments |-> h] : w \in 1..MaxSegments, h \in 2..MaxSegments}
        \cup {[widthSegments |-> 20, heightSegments |-> 20]}

\* the grid array in which entry n is n: a triangle loop run on it gives the grid indices
\* it reads
GridIndices(widthSegments, heightSegments) ==
    [n \in 0..((heightSegments + 1) * (widthSegments + 1) - 1) |-> n]

InitSphere ==
    /\ InitPipeline
    /\ webglSupported = TRUE
    /\ input \in SphereGrids
    /\ stage = "input"
    /\ output = <<>>
    /\ output2 = <<>>

\* the k-th triangle the loops of generateSphere and of generateSphereNormals push: the
\* grid indices of its three corners, in the order pushed
WalkSphere ==
    /\ stage = "input"
    /\ LET w == input.widthSegments
           h == input.heightSegments
           vertexWalk == sphereTriangles(GridIndices(w, h), w, h, 0)
           normalWalk == sphereNormalsTriangles(GridIndices(w, h), w, h, 0)
       IN  \E k \in 1..(Len(vertexWalk) \div 3) :
               output' = [index |-> k,
                          triangles |-> Len(vertexWalk) \div 3,
                          vertexIndices |-> SubSeq(vertexWalk, 3 * k - 2, 3 * k),
                          normalIndices |-> SubSeq(normalWalk, 3 * k - 2, 3 * k)]
    /\ stage' = "sphereTriangle"
    /\ UNCHANGED <<input, output2>>
    /\ UNCHANGED pipelineVars

NextSphere == WalkSphere

SpecSphere == InitSphere /\ [][NextSphere]_vars

(***************************************************************************)
(* Properties                                                              *)
(***************************************************************************)

\* a step in which generateShader calls renderShader: the shader code, cleared when the
\* request began, is set to the code received
RenderStep == shaderCode = <<>> /\ shaderCode' # <<>>

\* the error shown after renderShader threw msg
RenderError(msg) == ErrorText(RenderFailedPrefix, msg)

\* pat occurs somewhere in s, letter for letter
Present(s, pat) == \E i \in 0..Len(s) : OccursAt(s, pat, i)

\* C1: a renderShader call that replaces an active program releases every device handle
\* of the previous pipeline (its program, its two shader stages, its two buffers), so
\* that only the new pipeline is live after the call.
C1_PreviousPipelineReleased ==
    [][(RenderStep /\ programRef # 0 /\ programRef' # programRef) =>
          /\ \A p \in dev'.programs : p.id # programRef
          /\ \A p \in dev.programs :
                p.id = programRef =>
                    \A sh \in dev'.shaders : sh.id \notin {p.vertexShader, p.fragmentShader}
          /\ \A b \in dev'.buffers : b \notin dev.buffers]_vars

\* C2: after any sequence of renderShader calls at most one frame callback is pending
\* (the previous registration is cancelled when a new pipeline starts).
C2_AtMostOnePendingCallback == Cardinality(pending) <= 1

\* C3: after renderShader fails with a shader compilation error, no shader-stage handle
\* created by that call is alive.
C3_CompileFailureLeavesNoShader ==
    [][(RenderStep /\ error' = RenderError(CompileErrorMsg)) =>
          \A sh \in dev'.shaders : sh \in dev.shaders]_vars

\* C4: after renderShader fails with a program linking error, no handle created by that
\* call (shader stage or program) is alive.
C4_LinkFailureLeavesNoHandle ==
    [][(RenderStep /\ error' = RenderError(LinkErrorMsg)) =>
          /\ \A sh \in dev'.shaders : sh \in dev.shaders
          /\ \A p \in dev'.programs : p \in dev.programs]_vars

\* C5: the unmount cleanup leaves no frame callback pending and no device resource
\* (shader stage, program, buffer) alive.
C5_UnmountReleasesEverything ==
    [][(canvasRef /\ ~canvasRef') =>
          /\ pending' = {}
          /\ dev'.shaders = {}
          /\ dev'.programs = {}
          /\ dev'.buffers = {}]_vars

\* C6: a renderShader call with a bundle that lacks the vertex marker or the fragment
\* marker creates no device resource and registers no frame callback, and (the canvas
\* being mounted and WebGL available) it fails with the missing-marker error.
C6_MissingMarkerCreatesNothing ==
    [][(RenderStep /\ (~Present(shaderCode', VertexMarker)
                       \/ ~Present(shaderCode', FragmentMarker))) =>
          /\ dev' = dev
          /\ pending' = pending
          /\ nextFrameId' = nextFrameId
          /\ (canvasRef /\ webglSupported) => error' = RenderError(MissingMarkersMsg)]_vars

\* C6 witness: a bundle without a marker was rejected while a pipeline was live
C6_Witness ==
    /\ shaderCode \in {BundleNoFragment, BundleNoVertex}
    /\ error = RenderError(MissingMarkersMsg)
    /\ dev.programs # {}
    /\ pending # {}

C8_SplitFailsIffMarkerAbsent ==
    stage = "split" =>
        /\ output.thrown \in {NoError, MissingMarkersMsg}
        /\ (output.thrown = MissingMarkersMsg) <=>
               (~Present(input, VertexMarker) \/ ~Present(input, FragmentMarker))

\* C8 witness: split accepted a bundle whose fragment marker comes first
C8_Witness ==
    /\ stage = "split"
    /\ output.thrown = NoError
    /\ IndexOf(input, FragmentMarker) < IndexOf(input, VertexMarker)

\* C9: repair is idempotent: repair(repair(x)) = repair(x).
C9_RepairIdempotent == stage = "repairedTwice" => output2 = output

\* C10: the output of repair begins with a precision qualifier statement.
C10_OutputBeginsWithPrecision ==
    stage \in {"repaired", "repairedTwice"} => PrecisionMatchEnd(output, 0) # -1

\* the declaration text occurs in s and the name it declares ends there
Declares(s, decl) ==
    \E i \in 0..Len(s) :
        /\ OccursAt(s, decl, i)
        /\ i + Len(decl) = Len(s) \/ s[i + Len(decl) + 1] \notin WordChars

\* the recognized identifiers with their declarations, in the order of insertion
Recognized ==
    << [name |-> TimeName, decl |-> TimeDecl],
       [name |-> ResolutionName, decl |-> ResolutionDecl],
       [name |-> VNormalName, decl |-> VNormalDecl],
       [name |-> VPositionName, decl |-> VPositionDecl] >>

\* C11: every recognized identifier the fragment source uses is declared in the output
\* of repair.
C11_UsedIdentifiersDeclared ==
    stage \in {"repaired", "repairedTwice"} =>
        \A k \in 1..Len(Recognized) :
            UsesName(input, Recognized[k].name) => Declares(output, Recognized[k].decl)

\* C12: a source that begins with a precision statement and declares every recognized
\* identifier it uses is returned by repair unchanged.
C12_WellFormedUnchanged ==
    (/\ stage \in {"repaired", "repairedTwice"}
     /\ PrecisionMatchEnd(input, 0) # -1
     /\ \A k \in 1..Len(Recognized) :
            UsesName(input, Recognized[k].name) => Declares(input, Recognized[k].decl))
    => output = input

\* the number of occurrences of pat in s
Occurrences(s, pat) == Cardinality({i \in 0..Len(s) : OccursAt(s, pat, i)})

\* the declarations the output has and the input has not, one per line in the order of
\* Recognized
RECURSIVE InsertedBlock(_, _, _)
InsertedBlock(in, out, k) ==
    IF k > Len(Recognized) THEN <<>>
    ELSE LET rest == InsertedBlock(in, out, k + 1)
             decl == Recognized[k].decl
         IN  IF Includes(out, decl) /\ ~Includes(in, decl)
             THEN decl \o <<";">> \o (IF rest = <<>> THEN <<>> ELSE <<"\n">> \o rest)
             ELSE rest

\* C13: the declarations repair inserts are one block, in the order time, resolution,
\* vNormal, vPosition, on the lines directly after the precision statement the output
\* begins with, and an inserted "uniform float time;" occurs exactly once.
C13_BlockAfterPrecision ==
    (/\ stage \in {"repaired", "repairedTwice"}
     /\ InsertedBlock(input, output, 1) # <<>>)
    => /\ PrecisionMatchEnd(output, 0) # -1
       /\ OccursAt(output, <<"\n">> \o InsertedBlock(input, output, 1),
                   PrecisionMatchEnd(output, 0))
       /\ ~Includes(input, TimeDecl) /\ Includes(output, TimeDecl)
              => Occurrences(output, TimeDecl \o <<";">>) = 1

\* C14: the vertex array and the normal array of a geometry type have the same number of
\* vectors, a non-zero multiple of 3, and 36 for the cube.
C14_VerticesMatchNormals ==
    stage = "geometry" =>
        /\ output.vertexCount = output.normalCount
        /\ output.vertexCount > 0
        /\ output.vertexCount % 3 = 0
        /\ output.geometryType = CubeName => output.vertexCount = 36

\* C14 witness: the sphere, named in capitals, with 2280 vertices and 2280 normals
C14_Witness ==
    /\ stage = "geometry"
    /\ output.geometryType = <<"S","P","H","E","R","E">>
    /\ output.vertexCount = 2280
    /\ output.normalCount = 2280

\* the geometry tag of the bundle names w: the first marker is followed by optional white
\* space and then the word w
Tagged(code, w) ==
    /\ Present(code, GeometryMarker)
    /\ LET start == SkipClass(code, IndexOf(code, GeometryMarker) + Len(GeometryMarker),
                              WhiteSpace)
       IN  /\ OccursAt(code, w, start)
           /\ SkipClass(code, start, WordChars) = start + Len(w)

\* the two arrays setupGeometry uploads for a geometry type
Buffers(type) == <<getGeometryVertices(type), getGeometryNormals(type)>>

\* the arrays of the five variants with their default parameters
CubeBuffers == <<Points(CubeVertices), Points(CubeNormals)>>

SphereBuffers == <<generateSphere(100, 20, 20), generateSphereNormals(100, 20, 20)>>

PlaneBuffers == <<Points(PlaneVertices), Points(PlaneNormals)>>

CylinderBuffers == <<generateCylinder(100, 200, 16), generateCylinderNormals(100, 200, 16)>>

TorusBuffers == <<generateTorus(60, 30, 16, 16), generateTorusNormals(60, 30, 16, 16)>>

\* C15: the geometry tag resolves by name, whatever its case, to the variant with its
\* default parameters; a bundle without the marker resolves to the cube, and a name that
\* is none of the five gets the cube's arrays.
C15_TagResolvesByName ==
    stage = "geometry" =>
        /\ ~Present(input, GeometryMarker) => Buffers(output.geometryType) = CubeBuffers
        /\ Tagged(input, <<"c","u","b","e">>) => Buffers(output.geometryType) = CubeBuffers
        /\ Tagged(input, <<"S","P","H","E","R","E">>) => Buffers(output.geometryType) = SphereBuffers
        /\ Tagged(input, <<"p","l","a","n","e">>) => Buffers(output.geometryType) = PlaneBuffers
        /\ Tagged(input, <<"C","y","l","i","n","d","e","r">>) => Buffers(output.geometryType) = CylinderBuffers
        /\ Tagged(input, <<"T","o","r","u","s">>) => Buffers(output.geometryType) = TorusBuffers
        /\ Tagged(input, <<"b","l","o","b">>) => Buffers(output.geometryType) = CubeBuffers

\* C15 witness: a tag that names none of the five resolved to the 36 vertices of the cube
C15_Witness ==
    /\ stage = "geometry"
    /\ Tagged(input, <<"b","l","o","b">>)
    /\ output.geometryType = <<"b","l","o","b">>
    /\ output.vertexCount = 36

\* the kind of failure a renderShader call with bundle code and device answer d is: the
\* first of the conditions of the pipeline that fails
FailureKind(code, d) ==
    IF ~webglSupported THEN "DeviceUnavailable"
    ELSE IF ~Present(code, VertexMarker) \/ ~Present(code, FragmentMarker)
    THEN "MissingMarker"
    ELSE IF d.lost THEN "DeviceUnavailable"
    ELSE IF ~d.vertexCompiles THEN "CompileFailed vertex"
    ELSE IF ~d.fragmentCompiles THEN "CompileFailed fragment"
    ELSE IF ~d.links THEN "LinkFailed"
    ELSE "Ok"

\* the error generateShader shows after that call (lines 52-59, 80)
Reported(code, d) ==
    LET m == renderShader(Machine, code, d)
    IN  IF m.thrown # NoError THEN RenderError(m.thrown) ELSE m.error

\* C16: what renderShader reports tells the kinds of failure apart (missing marker,
\* compile failure of the vertex stage, compile failure of the fragment stage, link
\* failure, device unavailable): two calls that fail in different ways report different
\* errors.
C16_FailureKindsDistinguishable ==
    canvasRef =>
        \A code \in PipelineBundles, d1 \in DeviceAnswers, d2 \in DeviceAnswers :
            (/\ FailureKind(code, d1) # "Ok"
             /\ FailureKind(code, d2) # "Ok"
             /\ FailureKind(code, d1) # FailureKind(code, d2))
                => Reported(code, d1) # Reported(code, d2)

\* C17: a renderShader call that makes a program current sets no device error, whichever
\* of the attributes position and normal the program has.
C17_AbsentAttributeTolerated ==
    [][(RenderStep /\ programRef' # programRef) => dev'.errors = dev.errors]_vars

\* a step that is one display frame
FrameStep == ~RenderStep /\ canvasRef' = canvasRef /\ pending' # pending

\* the number of floats of the position buffer of the geometry set up last
BoundFloats(d) ==
    (CHOOSE b \in d.buffers : \A other \in d.buffers : other.id <= b.id).floats

\* one draw call of animate: a triangle list over the vertices of the geometry set up
\* last, with no upload for a uniform the program has not
FullDraw(draw, d, program) ==
    /\ draw.program = program
    /\ draw.mode = "TRIANGLES"
    /\ draw.count * 3 = BoundFloats(d)
    /\ \A k \in 1..Len(UniformNames) :
           ~getUniformLocation(d, program, UniformNames[k]) => k \notin draw.uniforms

\* C18: every call of animate with a current program and a mounted canvas issues exactly
\* one draw call, a triangle list over the vertex count of the geometry the last
\* successful renderShader set up, and sets no device error: the one call at the end of a
\* successful renderShader, and each callback of a display frame.
C18_OneFullDrawPerFrame ==
    [][/\ (RenderStep /\ programRef' # programRef) =>
              /\ Len(draws') = 1
              /\ FullDraw(draws'[1], dev', programRef')
       /\ (FrameStep /\ canvasRef /\ glRef /\ programRef # 0) =>
              /\ Len(draws') = Cardinality(pending)
              /\ \A k \in 1..Len(draws') : FullDraw(draws'[k], dev, programRef)
              /\ dev'.errors = dev.errors]_vars

\* C18 witness: a frame drew the six vertices of the plane, uploading no uniform, after a
\* later renderShader call had failed to compile
C18_Witness ==
    /\ error = RenderError(CompileErrorMsg)
    /\ draws # <<>>
    /\ draws[1].count = 6
    /\ draws[1].uniforms = {}

\* u - v, the cross product and the dot product of vectors
Minus(u, v) == <<u[1] - v[1], u[2] - v[2], u[3] - v[3]>>

Cross(u, v) ==
    <<u[2] * v[3] - u[3] * v[2], u[3] * v[1] - u[1] * v[3], u[1] * v[2] - u[2] * v[1]>>

Dot(u, v) == u[1] * v[1] + u[2] * v[2] + u[3] * v[3]

\* C19: every triangle is counter-clockwise seen from outside: the face normal its vertex
\* order gives, (v2 - v1) x (v3 - v1), points to the side of the normals emitted for its
\* three vertices.
C19_CounterClockwiseFromOutside ==
    stage = "triangle" =>
        \A c \in 1..3 :
            Dot(Cross(Minus(output2.corners[2], output2.corners[1]),
                      Minus(output2.corners[3], output2.corners[1])),
                output2.normals[c]) > 0

\* C20: a bundle split accepts has the vertex marker before the fragment marker, and the
\* vertex source it yields does not contain the fragment marker.
C20_AcceptedBundleIsOrdered ==
    (stage = "split" /\ output.thrown = NoError) =>
        /\ IndexOf(input, VertexMarker) < IndexOf(input, FragmentMarker)
        /\ ~Present(output.vertex, FragmentMarker)

\* the corners of the first triangle (a, b, c) and of the second triangle (b, d, c) of the
\* cell in row i, column j of a grid with w segments a row
FirstTriangle(i, j, w) ==
    <<i * (w + 1) + j, (i + 1) * (w + 1) + j, i * (w + 1) + j + 1>>

SecondTriangle(i, j, w) ==
    <<(i + 1) * (w + 1) + j, (i + 1) * (w + 1) + j + 1, i * (w + 1) + j + 1>>

\* the k-th triangle of the walk the claim describes: row 0 gives the second triangle of
\* each cell, the last row the first, every row between both, first before second
ExpectedTriangle(k, w, h) ==
    IF k <= w THEN SecondTriangle(0, k - 1, w)
    ELSE IF k > w + 2 * w * (h - 2) THEN FirstTriangle(h - 1, k - w - 2 * w * (h - 2) - 1, w)
    ELSE LET m == k - w - 1
             i == 1 + m \div (2 * w)
             j == (m % (2 * w)) \div 2
         IN  IF m % 2 = 0 THEN FirstTriangle(i, j, w) ELSE SecondTriangle(i, j, w)

\* the corners of a triangle that lie in grid row r
CornersInRow(t, r, w) == {c \in 1..3 : t[c] \div (w + 1) = r}

\* C21: in the sphere grid walk a cell of row 0 emits only its second triangle (b, d, c),
\* a cell of the last row only its first (a, b, c), every other cell both; no triangle
\* has two corners on one pole row, there are 2 * widthSegments * (heightSegments - 1)
\* triangles, and generateSphereNormals emits the same grid indices in the same order.
C21_SphereWalkSkipsPoleTriangles ==
    stage = "sphereTriangle" =>
        LET w == input.widthSegments
            h == input.heightSegments
        IN  /\ output.vertexIndices = ExpectedTriangle(output.index, w, h)
            /\ output.normalIndices = output.vertexIndices
            /\ output.triangles = 2 * w * (h - 1)
            /\ Cardinality(CornersInRow(output.vertexIndices, 0, w)) <= 1
            /\ Cardinality(CornersInRow(output.vertexIndices, h, w)) <= 1

\* C21 witness: the 760th and last triangle of the 20 x 20 sphere, the first triangle of
\* the last cell of the last row, with its one corner on the pole row
C21_Witness ==
    /\ stage = "sphereTriangle"
    /\ input = [widthSegments |-> 20, heightSegments |-> 20]
    /\ output.index = 760
    /\ output.triangles = 760
    /\ output.vertexIndices = FirstTriangle(19, 19, 20)
    /\ output.normalIndices = FirstTriangle(19, 19, 20)

\* C22: at most one fetch is outstanding at any time, and while one is, the request is
\* loading, which disables the button: a fetch begins only when none is outstanding, and
\* renderShader runs only in the completion of the one outstanding fetch.
C22_OneFetchInFlight ==
    /\ fetching <= 1
    /\ fetching = 1 <=> isLoading

\* C22 witness: a second request is in flight, its button disabled, while the program
\* of the first is current
C22_Witness ==
    /\ fetching = 1
    /\ isLoading
    /\ shaderCode = <<>>
    /\ programRef # 0
    /\ pending # {}

\* C23: once the canvas reference is cleared, no step issues a draw call, creates a device
\* resource or registers a frame callback (a callback that fires returns at once, a fetch
\* that completes makes renderShader return before it compiles), and eventually no frame
\* callback is pending.
C23_NothingAfterTeardown ==
    /\ [][~canvasRef =>
              /\ ~canvasRef'
              /\ draws' = <<>> \/ draws' = draws
              /\ dev' = dev
              /\ nextFrameId' = nextFrameId
              /\ pending' \subseteq pending
              /\ programRef' = programRef]_vars
    /\ (~canvasRef ~> pending = {})

\* C23 witness: the view was torn down with two callbacks queued and a fetch in flight;
\* the callback the cleanup did not cancel has fired without registering another, and the
\* fetched plane bundle was ignored: no error, the cube's vertex count kept
C23_Witness ==
    /\ ~canvasRef
    /\ pending = {}
    /\ animationRef = 2
    /\ nextFrameId = 3
    /\ shaderCode = BundlePlane
    /\ ~isLoading
    /\ error = NoErrorText
    /\ vertexCountRef = 36

====
